---- MODULE Spec2Model ----
(***************************************************************************)
(* Model of employee_changes_monitor.py: one periodic run of main() loads  *)
(* the persisted snapshot (employees.json), fetches the catalog, walks the *)
(* catalog (created / updated), walks the snapshot (deleted) and saves.    *)
(* The remote catalog and the per-record history feeds change while the    *)
(* runs go on.  A Python dict is a sequence of records with distinct ids,  *)
(* in insertion order.  Timestamps are integers ordered as the ISO strings *)
(* are; None (no timestamp) and the "0" sentinel are separate values.      *)
(***************************************************************************)
EXTENDS Integers, Sequences, FiniteSets, TLC

\* ---------------------------------------------------------------- bounds
MaxId == 2
\* the remote clock stops here: at most MaxClock - 1 remote changes
MaxClock == 3
\* resultPerPage (1000 in the request URL), scaled so that a catalog of
\* MaxId records spans several pages
PageSize == 1

Ids == 1..MaxId
Labels == {"Alice", "Bob"}

\* ------------------------------------------------------- Python values
\* emp.get("updated") of an entry without the key
None == -1
\* the "0" of `old_updated or "0"`: sorts before every real timestamp
Epoch == 0
\* h["created"] of a history event that lacks the key
NoKey == -2
\* a JSON null / an absent key in a string-valued field
Null == "null"
Missing == "missing"

\* -------------------------------------------------------------- dicts
Keys(d) == {d[k].id : k \in 1..Len(d)}

Has(d, id) == id \in Keys(d)

Get(d, id) == d[CHOOSE k \in 1..Len(d) : d[k].id = id]

\* d[id] = r
Put(d, id, r) ==
    IF Has(d, id)
    THEN [k \in 1..Len(d) |-> IF d[k].id = id THEN r ELSE d[k]]
    ELSE Append(d, r)

\* d.pop(id)
Pop(d, id) == SelectSeq(d, LAMBDA r : r.id # id)

\* {str(e["id"]): e for e in employees}
RECURSIVE ToDict(_)
ToDict(employees) ==
    IF employees = <<>> THEN <<>>
    ELSE LET n == Len(employees)
         IN  Put(ToDict(SubSeq(employees, 1, n - 1)), employees[n].id, employees[n])

Min(a, b) == IF a < b THEN a ELSE b

\* ------------------------------------------------------ fetch_employees
\* The while loop of fetch_employees over the remote listing; failPage is
\* the page that answers with a status other than 200 (0: none does).
RECURSIVE FetchPages(_, _, _, _)
FetchPages(listing, page, failPage, employees) ==
    IF page = failPage THEN employees
    ELSE LET data == SubSeq(listing, (page - 1) * PageSize + 1,
                            Min(page * PageSize, Len(listing)))
         IN  IF data = <<>> THEN employees
             ELSE IF Len(data) < PageSize THEN employees \o data
             ELSE FetchPages(listing, page + 1, failPage, employees \o data)

fetch_employees(listing, failPage) == ToDict(FetchPages(listing, 1, failPage, <<>>))

\* the pages a listing can be asked for: the last one is short or empty
LastPage(listing) == (Len(listing) \div PageSize) + 1

\* ------------------------------------------------- the history response
\* last_time = old_updated or "0"
last_time(old_updated) == IF old_updated = None THEN Epoch ELSE old_updated

\* a slip: >= for >
Newer_OrEqual(created, lt) == created >= lt

\* h["created"] > last_time
Newer(created, lt) == created > lt

\* for h in history: if h["created"] > last_time: changes.append(...)
\* (the positions of the history events that are reported)
RECURSIVE Reportable(_, _, _)
Reportable(history, lt, k) ==
    IF k > Len(history) THEN <<>>
    ELSE (IF Newer(history[k].created, lt) THEN <<k>> ELSE <<>>)
         \o Reportable(history, lt, k + 1)

\* attr = h.get("affectedAttribute", <em dash>), written "--" here; a null
\* value prints as None in the f-string
Attr(h) ==
    IF h.affectedAttribute = Missing THEN "--"
    ELSE IF h.affectedAttribute = Null THEN "None"
    ELSE h.affectedAttribute

\* h.get("oldValue") or "None"
OrNone(v) == IF v \in {Missing, Null, ""} THEN "None" ELSE v

\* f"{attr}: {old_val} -> {new_val}"
FieldChange(h) ==
    [attribute |-> Attr(h), oldValue |-> OrNone(h.oldValue),
     newValue |-> OrNone(h.newValue)]

Changes(history, lt) ==
    LET src == Reportable(history, lt, 1)
    IN  [k \in 1..Len(src) |-> FieldChange(history[src[k]])]

\* actor = history[-1].get("actor", {}).get("displayName", "Unknown")
Actor(history) ==
    LET a == history[Len(history)].actor
    IN  IF a = Missing THEN "Unknown" ELSE a

\* The exceptions that lines 118-129 raise outside the try block: KeyError
\* on an event without "created", AttributeError on a null actor of the last
\* event once there is something to report.
Raises(history, lt) ==
    \/ \E k \in 1..Len(history) : history[k].created = NoKey
    \/ /\ Reportable(history, lt, 1) # <<>>
       /\ history[Len(history)].actor = Null

\* ------------------------------------------------------------- events
CreatedEvent(emp) ==
    [kind |-> "CREATED", id |-> emp.id, label |-> emp.label, actor |-> "",
     occurredAt |-> None, changes |-> <<>>, src |-> <<>>, full |-> <<>>]

\* a slip: actor and date are read from the last reported event
UpdatedEvent_LastReported(emp, history, lt) ==
    LET src == Reportable(history, lt, 1)
        h == history[src[Len(src)]]
    IN  [kind |-> "UPDATED", id |-> emp.id, label |-> emp.label,
         actor |-> IF h.actor = Missing THEN "Unknown" ELSE h.actor,
         occurredAt |-> h.created,
         changes |-> Changes(history, lt), src |-> src, full |-> history]

\* src and full are history fields of the model: the positions of the
\* reported history events and the whole list the feed returned
UpdatedEvent(emp, history, lt) ==
    [kind |-> "UPDATED", id |-> emp.id, label |-> emp.label,
     actor |-> Actor(history), occurredAt |-> history[Len(history)].created,
     changes |-> Changes(history, lt), src |-> Reportable(history, lt, 1),
     full |-> history]

\* label = old_data[emp_id].get("label", f"object_{emp_id}")
DeletedEvent(rec) ==
    [kind |-> "DELETED", id |-> rec.id, label |-> rec.label, actor |-> "",
     occurredAt |-> None, changes |-> <<>>, src |-> <<>>, full |-> <<>>]

\* ------------------------------------------------------ send_to_slack
\* a slip: the exception of requests.post is not caught
send_to_slack_Propagates(raises, resume) == IF raises THEN "crashed" ELSE resume

\* send_to_slack: where main goes on after the call, whether requests.post
\* raised (the exception is logged) or not
send_to_slack(raises, resume) == resume

\* ----------------------------------------------- the steps on old_data
\* a slip: the timestamp is not written back
Advance_Keeps(od, emp) == od

\* old_data[emp_id]["updated"] = updated
Advance(od, emp) ==
    Put(od, emp.id, [Get(od, emp.id) EXCEPT !.updated = emp.updated])

\* a slip: the new record is reported and not stored
InsertCreated_Forgets(od, emp) == od

\* old_data[emp_id] = emp
InsertCreated(od, emp) == Put(od, emp.id, emp)

\* a slip: every known record is looked up, changed or not
IsUpdated_Always(updated, old_updated) == TRUE

\* if updated != old_updated
IsUpdated(updated, old_updated) == updated # old_updated

\* a slip: the failed lookup is acknowledged all the same
OnHistoryError_Advances(od, emp) == Advance(od, emp)

\* except Exception: log(...); continue
OnHistoryError(od, emp) == od

\* a slip: an empty history falls through to line 139
OnEmptyHistory_Advances(od, emp) == Advance(od, emp)

\* if not history: continue
OnEmptyHistory(od, emp) == od

\* slips: the deletion test never holds, or always does
IsDeleted_Never(id, nd) == FALSE
IsDeleted_Always(id, nd) == TRUE

\* for emp_id in list(old_data.keys()): if emp_id not in new_data: ...
IsDeleted(id, nd) == ~Has(nd, id)

RECURSIVE DeletedEvents(_, _, _)
DeletedEvents(keys, od, nd) ==
    IF keys = <<>> THEN <<>>
    ELSE (IF IsDeleted(keys[1].id, nd) THEN <<DeletedEvent(Get(od, keys[1].id))>>
          ELSE <<>>) \o DeletedEvents(Tail(keys), od, nd)

RECURSIVE PopDeleted(_, _, _)
PopDeleted(keys, od, nd) ==
    IF keys = <<>> THEN od
    ELSE PopDeleted(Tail(keys),
                    IF IsDeleted(keys[1].id, nd) THEN Pop(od, keys[1].id) ELSE od,
                    nd)

\* ------------------------------------------------------------ the state
VARIABLES
    clock,        \* the remote system's clock: the timestamp of its last change
    remote,       \* the remote catalog, in listing order
    hist,         \* the remote history feed of every id
    gone,         \* the ids of the objects that left the catalog
    fileExists,   \* os.path.exists(EMPLOYEES_FILE)
    file,         \* the content of employees.json
    pc,           \* where main() is
    baseline,     \* this run created the baseline in load_employees
    old_data,     \* main's old_data
    new_data,     \* main's new_data
    i,            \* the position of the loop of line 88 in new_data
    events,       \* the messages logged and sent by this run, in order
    prev,         \* history variable: old_data as load_employees returned it
    outcome,      \* history variable: what the loop of line 88 did for an id
    fetchLog,     \* history variable: the ids whose history was requested
    answer,       \* history variable: the list the history request of an id returned
    partial,      \* history variable: the fetch of line 84 got a non-200 page
    slackError,   \* history variable: a requests.post of send_to_slack raised in this run
    lastFailed,   \* history variable: ids of the last completed run whose history request failed
    lastCurrent,  \* history variable: new_data of the last completed run
    reported      \* history variable: <<id, created>> of the history events that completed runs reported

vars == <<clock, remote, hist, gone, fileExists, file, pc, baseline, old_data, new_data,
          i, events, prev, outcome, fetchLog, answer, partial, slackError, lastFailed,
          lastCurrent,
          reported>>

world == <<clock, remote, hist, gone>>
run == <<pc, baseline, old_data, new_data, i, events, prev, outcome, fetchLog, answer, partial,
        slackError>>
past == <<lastFailed, lastCurrent, reported>>

\* what a change of a record leaves in its history feed, but for the timestamp
Shapes ==
    { [affectedAttribute |-> "title", oldValue |-> "Eng", newValue |-> "SrEng",
       actor |-> "Carol"],
      [affectedAttribute |-> Null, oldValue |-> Null, newValue |-> "",
       actor |-> Missing] }

NoOutcome == [id \in Ids |-> "none"]

NoAnswer == [id \in Ids |-> <<>>]

Init ==
    /\ clock = 1
    /\ \E u \in {1, None}, n \in 1..2 :
          remote = SubSeq(<< [id |-> 1, label |-> "Alice", updated |-> u],
                             [id |-> 2, label |-> "Bob", updated |-> 1] >>, 1, n)
    /\ hist = [id \in Ids |-> <<>>]
    /\ gone = {}
    /\ fileExists = FALSE
    /\ file = <<>>
    /\ pc = "idle"
    /\ baseline = FALSE
    /\ old_data = <<>>
    /\ new_data = <<>>
    /\ i = 1
    /\ events = <<>>
    /\ prev = <<>>
    /\ outcome = NoOutcome
    /\ fetchLog = <<>>
    /\ answer = NoAnswer
    /\ partial = FALSE
    /\ slackError = FALSE
    /\ lastFailed = {}
    /\ lastCurrent = <<>>
    /\ reported = {}

\* ------------------------------------------------- the remote system
\* The remote system changes between the runs and, within a run, where the
\* run can tell: between the two catalog fetches of a baseline run (any
\* change), and before the history request of a record still to be visited
\* (its history, its presence).  A change the run cannot see is the same
\* change made after the run.
BetweenRequests ==
    /\ clock < MaxClock
    /\ \/ pc = "idle"
       \/ pc = "fetch" /\ baseline

BeforeRequest(id) ==
    /\ clock < MaxClock
    /\ pc = "loop"
    /\ \E k \in i..Len(new_data) : new_data[k].id = id

\* a new object appears in the catalog; object ids are never reused
Hire(id, stamped) ==
    /\ BetweenRequests
    /\ ~Has(remote, id)
    /\ id \notin gone
    /\ clock' = clock + 1
    /\ remote' = Append(remote, [id |-> id, label |-> "Bob",
                                 updated |-> IF stamped THEN clock' ELSE None])
    /\ UNCHANGED <<hist, gone, fileExists, file, run, past>>

\* an attribute of an object changes: one history event, stamped as the object
Edit(id, shape) ==
    /\ (BetweenRequests \/ BeforeRequest(id))
    /\ Has(remote, id)
    /\ clock' = clock + 1
    /\ remote' = Put(remote, id, [Get(remote, id) EXCEPT !.updated = clock'])
    /\ hist' = [hist EXCEPT ![id] =
                   Append(@, [created |-> clock',
                              affectedAttribute |-> shape.affectedAttribute,
                              oldValue |-> shape.oldValue,
                              newValue |-> shape.newValue,
                              actor |-> shape.actor])]
    /\ UNCHANGED <<gone, fileExists, file, run, past>>

\* the object's timestamp moves and its history records nothing
Touch(id) ==
    /\ BetweenRequests
    /\ Has(remote, id)
    /\ clock' = clock + 1
    /\ remote' = Put(remote, id, [Get(remote, id) EXCEPT !.updated = clock'])
    /\ UNCHANGED <<hist, gone, fileExists, file, run, past>>

\* the object's label changes and its timestamp does not
Rename(id, label) ==
    /\ BetweenRequests
    /\ Has(remote, id)
    /\ Get(remote, id).label # label
    /\ clock' = clock + 1
    /\ remote' = Put(remote, id, [Get(remote, id) EXCEPT !.label = label])
    /\ UNCHANGED <<hist, gone, fileExists, file, run, past>>

\* the object leaves the catalog
Fire(id) ==
    /\ (BetweenRequests \/ BeforeRequest(id))
    /\ Has(remote, id)
    /\ clock' = clock + 1
    /\ remote' = Pop(remote, id)
    /\ gone' = gone \cup {id}
    /\ UNCHANGED <<hist, fileExists, file, run, past>>

\* ------------------------------------------------------------- main()
\* load_employees, the file exists: the snapshot is read from it
Load ==
    /\ pc = "idle"
    /\ fileExists
    /\ old_data' = file
    /\ prev' = file
    /\ baseline' = FALSE
    /\ pc' = "fetch"
    /\ UNCHANGED <<answer, world, fileExists, file, new_data, i, events, outcome,
                   fetchLog, partial, past,
                   slackError>>

\* a slip: the baseline is saved and an empty snapshot is returned
LoadBaseline_ReturnsNothing(failPage) ==
    /\ pc = "idle"
    /\ ~fileExists
    /\ file' = fetch_employees(remote, failPage)
    /\ old_data' = <<>>
    /\ prev' = <<>>
    /\ fileExists' = TRUE
    /\ baseline' = TRUE
    /\ pc' = "fetch"
    /\ UNCHANGED <<answer, world, new_data, i, events, outcome, fetchLog, partial,
                   past, slackError>>

\* load_employees, no file: the baseline is fetched and saved
LoadBaseline(failPage) ==
    /\ pc = "idle"
    /\ ~fileExists
    /\ LET data == fetch_employees(remote, failPage)
       IN  /\ file' = data
           /\ old_data' = data
           /\ prev' = data
    /\ fileExists' = TRUE
    /\ baseline' = TRUE
    /\ pc' = "fetch"
    /\ UNCHANGED <<answer, world, new_data, i, events, outcome, fetchLog, partial, past,
                   slackError>>

\* new_data = fetch_employees()
Fetch(failPage) ==
    /\ pc = "fetch"
    /\ new_data' = fetch_employees(remote, failPage)
    /\ partial' = (failPage # 0)
    /\ i' = 1
    /\ pc' = "loop"
    /\ UNCHANGED <<answer, world, fileExists, file, baseline, old_data, events, prev,
                   outcome, fetchLog, past,
                   slackError>>

\* requests.get raises in fetch_employees (timeout, connection refused, a
\* body that is no JSON): the exception leaves main
FetchRaises ==
    /\ \/ pc = "idle" /\ ~fileExists
       \/ pc = "fetch"
    /\ pc' = "fatal"
    /\ UNCHANGED <<answer, world, fileExists, file, baseline, old_data, new_data, i,
                   events, prev, outcome, fetchLog, partial, past,
                   slackError>>

\* the record the loop of line 88 is at
InLoop == pc = "loop" /\ i <= Len(new_data)
emp == new_data[i]
old_updated == IF Has(old_data, emp.id) THEN Get(old_data, emp.id).updated ELSE None

\* lines 95-100
Created ==
    /\ InLoop
    /\ ~Has(old_data, emp.id)
    /\ events' = Append(events, CreatedEvent(emp))
    /\ \E raises \in BOOLEAN :
          /\ pc' = send_to_slack(raises, pc)
          /\ slackError' = (slackError \/ raises)
    /\ old_data' = InsertCreated(old_data, emp)
    /\ outcome' = [outcome EXCEPT ![emp.id] = "created"]
    /\ i' = i + 1
    /\ UNCHANGED <<answer, world, fileExists, file, baseline, new_data, prev,
                   fetchLog, partial, past>>

\* line 103, the condition is false
Unchanged ==
    /\ InLoop
    /\ Has(old_data, emp.id)
    /\ ~IsUpdated(emp.updated, old_updated)
    /\ outcome' = [outcome EXCEPT ![emp.id] = "unchanged"]
    /\ i' = i + 1
    /\ UNCHANGED <<answer, world, fileExists, file, pc, baseline, old_data, new_data,
                   events, prev, fetchLog, partial, past,
                   slackError>>

\* the history request is made
Requests ==
    /\ InLoop
    /\ Has(old_data, emp.id)
    /\ IsUpdated(emp.updated, old_updated)
    /\ fetchLog' = Append(fetchLog, emp.id)

\* lines 104-113: the request fails (transport, timeout, status, no JSON)
HistoryError ==
    /\ Requests
    /\ old_data' = OnHistoryError(old_data, emp)
    /\ outcome' = [outcome EXCEPT ![emp.id] = "failed"]
    /\ i' = i + 1
    /\ UNCHANGED <<answer, world, fileExists, file, pc, baseline, new_data, events,
                   prev, partial, past,
                   slackError>>

\* a feed that lists the newest event first
Reverse(h) == [k \in 1..Len(h) |-> h[Len(h) + 1 - k]]

\* what the feed can answer for a history h: h, h newest first, or h with an
\* event that lacks "created", or h whose last event has a null actor
Bodies(h) ==
    {h, Reverse(h)}
    \cup {[h EXCEPT ![k].created = NoKey] : k \in 1..Len(h)}
    \cup (IF h = <<>> THEN {} ELSE {[h EXCEPT ![Len(h)].actor = Null]})

\* the request succeeds for an object the remote system has
Answers(history) ==
    /\ Requests
    /\ Has(remote, emp.id)
    /\ history \in Bodies(hist[emp.id])
    /\ answer' = [answer EXCEPT ![emp.id] = history]

\* lines 115-116
HistoryEmpty ==
    /\ Answers(<<>>)
    /\ old_data' = OnEmptyHistory(old_data, emp)
    /\ outcome' = [outcome EXCEPT ![emp.id] = "empty"]
    /\ i' = i + 1
    /\ UNCHANGED <<world, fileExists, file, pc, baseline, new_data, events,
                   prev, partial, past,
                   slackError>>

\* lines 118-139, something to report
HistoryReport(history) ==
    /\ Answers(history)
    /\ history # <<>>
    /\ ~Raises(history, last_time(old_updated))
    /\ Reportable(history, last_time(old_updated), 1) # <<>>
    /\ events' = Append(events, UpdatedEvent(emp, history, last_time(old_updated)))
    /\ \E raises \in BOOLEAN :
          /\ pc' = send_to_slack(raises, pc)
          /\ slackError' = (slackError \/ raises)
    /\ old_data' = Advance(old_data, emp)
    /\ outcome' = [outcome EXCEPT ![emp.id] = "updated"]
    /\ i' = i + 1
    /\ UNCHANGED <<world, fileExists, file, baseline, new_data, prev,
                   partial, past>>

\* lines 118-139, every event of the history is at or before last_time
HistoryStale(history) ==
    /\ Answers(history)
    /\ history # <<>>
    /\ ~Raises(history, last_time(old_updated))
    /\ Reportable(history, last_time(old_updated), 1) = <<>>
    /\ old_data' = Advance(old_data, emp)
    /\ outcome' = [outcome EXCEPT ![emp.id] = "stale"]
    /\ i' = i + 1
    /\ UNCHANGED <<world, fileExists, file, pc, baseline, new_data, events,
                   prev, partial, past,
                   slackError>>

\* lines 118-129 raise: the exception leaves main, nothing is saved
HistoryRaises(history) ==
    /\ Answers(history)
    /\ history # <<>>
    /\ Raises(history, last_time(old_updated))
    /\ outcome' = [outcome EXCEPT ![emp.id] = "raised"]
    /\ pc' = "crashed"
    /\ UNCHANGED <<world, fileExists, file, baseline, old_data, new_data, i,
                   events, prev, partial, past,
                   slackError>>

\* a slip: the deletions are reported ahead of the other messages
Deletions_First ==
    /\ pc = "loop"
    /\ i > Len(new_data)
    /\ events' = DeletedEvents(old_data, old_data, new_data) \o events
    /\ old_data' = PopDeleted(old_data, old_data, new_data)
    /\ \E raises \in BOOLEAN :
          /\ raises => DeletedEvents(old_data, old_data, new_data) # <<>>
          /\ pc' = send_to_slack(raises, "save")
          /\ slackError' = (slackError \/ raises)
    /\ UNCHANGED <<answer, world, fileExists, file, baseline, new_data, i, prev,
                   outcome, fetchLog, partial, past>>

\* lines 142-148
Deletions ==
    /\ pc = "loop"
    /\ i > Len(new_data)
    /\ events' = events \o DeletedEvents(old_data, old_data, new_data)
    /\ old_data' = PopDeleted(old_data, old_data, new_data)
    /\ \E raises \in BOOLEAN :
          /\ raises => DeletedEvents(old_data, old_data, new_data) # <<>>
          /\ pc' = send_to_slack(raises, "save")
          /\ slackError' = (slackError \/ raises)
    /\ UNCHANGED <<answer, world, fileExists, file, baseline, new_data, i, prev,
                   outcome, fetchLog, partial, past>>

\* line 150
Save ==
    /\ pc = "save"
    /\ file' = old_data
    /\ fileExists' = TRUE
    /\ pc' = "done"
    /\ UNCHANGED <<answer, world, baseline, old_data, new_data, i, events, prev,
                   outcome, fetchLog, partial, past,
                   slackError>>

\* the process ends; the next scheduled run starts from the file
Finish ==
    /\ pc \in {"done", "crashed", "fatal"}
    /\ pc' = "idle"
    /\ baseline' = FALSE
    /\ old_data' = <<>>
    /\ new_data' = <<>>
    /\ i' = 1
    /\ events' = <<>>
    /\ prev' = <<>>
    /\ outcome' = NoOutcome
    /\ fetchLog' = <<>>
    /\ answer' = NoAnswer
    /\ partial' = FALSE
    /\ slackError' = FALSE
    /\ IF pc = "done"
       THEN /\ lastFailed' = {id \in Ids : outcome[id] = "failed"}
            /\ lastCurrent' = new_data
            /\ reported' = reported \cup
                 UNION {{<<events[k].id, events[k].full[events[k].src[j]].created>> :
                            j \in 1..Len(events[k].src)} : k \in 1..Len(events)}
       ELSE UNCHANGED past
    /\ UNCHANGED <<world, fileExists, file>>

Environment ==
    \/ \E id \in Ids, stamped \in BOOLEAN : Hire(id, stamped)
    \/ \E id \in Ids, shape \in Shapes : Edit(id, shape)
    \/ \E id \in Ids : Touch(id)
    \/ \E id \in Ids, label \in Labels : Rename(id, label)
    \/ \E id \in Ids : Fire(id)

Next ==
    \/ Environment
    \/ Load
    \/ \E failPage \in 0..LastPage(remote) : LoadBaseline(failPage)
    \/ \E failPage \in 0..LastPage(remote) : Fetch(failPage)
    \/ FetchRaises
    \/ Created
    \/ Unchanged
    \/ HistoryError
    \/ HistoryEmpty
    \/ InLoop /\ \E history \in Bodies(hist[emp.id]) : HistoryReport(history)
    \/ InLoop /\ \E history \in Bodies(hist[emp.id]) : HistoryStale(history)
    \/ InLoop /\ \E history \in Bodies(hist[emp.id]) : HistoryRaises(history)
    \/ Deletions
    \/ Save
    \/ Finish

Spec == Init /\ [][Next]_vars

\* The runs in which every catalog fetch is complete and every history
\* request is answered with the feed's list as it is (a request for an object
\* that has left the catalog is refused).  The job is scheduled again and
\* again and every call of a run is bounded by its timeout, so a run step
\* that can be taken is taken.
QuietRun ==
    \/ Load
    \/ LoadBaseline(0)
    \/ Fetch(0)
    \/ Created
    \/ Unchanged
    \/ InLoop /\ ~Has(remote, emp.id) /\ HistoryError
    \/ HistoryEmpty
    \/ InLoop /\ HistoryReport(hist[emp.id])
    \/ InLoop /\ HistoryStale(hist[emp.id])
    \/ Deletions
    \/ Save
    \/ Finish

QuietNext == Environment \/ QuietRun

QuietSpec == Init /\ [][QuietNext]_vars /\ WF_vars(QuietRun)

\* ===================================================== the properties
Completed == pc = "done"

Range(q) == {q[k] : k \in 1..Len(q)}

\* the positions in events of the events of one kind about one id
EventsOf(id, kind) ==
    {k \in 1..Len(events) : events[k].id = id /\ events[k].kind = kind}

EventsAbout(id) == {k \in 1..Len(events) : events[k].id = id}

\* C1: a record whose history request failed gets no Updated event and keeps
\* the previous lastModified in the saved snapshot; and a completed run that
\* follows with the same current snapshot requests the history of every id
\* whose request failed in the completed run before it.
C1_RetryOnFailure ==
    /\ Completed =>
         \A id \in Ids : outcome[id] = "failed" =>
            /\ EventsOf(id, "UPDATED") = {}
            /\ Has(file, id) /\ Has(prev, id)
            /\ Get(file, id).updated = Get(prev, id).updated
            /\ Get(file, id).updated # Get(new_data, id).updated
    /\ (pc \in {"save", "done"} /\ new_data = lastCurrent) =>
         \A id \in lastFailed : id \in Range(fetchLog)

\* a request fails in two completed runs in a row over the same catalog
C1_Witness ==
    /\ Completed
    /\ new_data = lastCurrent
    /\ \E id \in lastFailed : outcome[id] = "failed"

\* C2 (as claimed): no history event is reported by two completed runs.
C2_NoRenotification ==
    Completed =>
       \A k \in 1..Len(events) : \A j \in 1..Len(events[k].src) :
          <<events[k].id, events[k].full[events[k].src[j]].created>> \notin reported

\* C3: after a completed run the saved snapshot has exactly the ids of
\* current.
C3_SameIds == Completed => Keys(file) = Keys(new_data)

\* a completed run with a failed history request and a deletion
C3_Witness ==
    /\ Completed
    /\ \E id \in Ids : outcome[id] = "failed"
    /\ \E k \in 1..Len(events) : events[k].kind = "DELETED"

\* C4 (as claimed): after a completed run every saved record has current's
\* label and current's lastModified, but for the ids whose history request
\* failed, which keep the previous lastModified.
C4_CurrentLabelAndTimestamp ==
    Completed =>
       \A id \in Keys(file) :
          /\ Has(new_data, id)
          /\ Get(file, id).label = Get(new_data, id).label
          /\ Get(file, id).updated =
                IF outcome[id] = "failed" THEN Get(prev, id).updated
                ELSE Get(new_data, id).updated

\* C4 (amended): after a completed run a record new in current is saved as
\* current has it; a record already in previous keeps the previous label,
\* and has current's lastModified unless its history request failed or
\* returned an empty list, where it keeps the previous lastModified.
C4_Amended ==
    Completed =>
       \A id \in Keys(file) :
          /\ Has(new_data, id)
          /\ IF ~Has(prev, id)
             THEN Get(file, id) = Get(new_data, id)
             ELSE /\ Get(file, id).label = Get(prev, id).label
                  /\ Get(file, id).updated =
                        IF outcome[id] \in {"failed", "empty"}
                        THEN Get(prev, id).updated
                        ELSE Get(new_data, id).updated

\* a renamed record whose changed timestamp came with an empty history
C4_Witness ==
    /\ Completed
    /\ \E id \in Keys(file) :
          /\ outcome[id] = "empty"
          /\ Get(file, id).label # Get(new_data, id).label
          /\ Get(file, id).updated # Get(new_data, id).updated

\* C5 (as claimed): no exception raised while a record is handled leaves
\* the run.
C5_NoExceptionEscapes == pc # "crashed"

\* C6 (as claimed): a catalog fetch that got a non-200 page aborts the run:
\* no Deleted event, the saved snapshot stays as it was loaded.
C6_NoPartialCatalog ==
    partial =>
       /\ \A k \in 1..Len(events) : events[k].kind # "DELETED"
       /\ pc \notin {"save", "done"}

\* C7: the field changes of an Updated event are those of exactly the
\* returned history events with createdAt > oldTs (the epoch sentinel for
\* an absent oldTs), in the order of the history.
C7_Dedup ==
    \A k \in 1..Len(events) : events[k].kind = "UPDATED" =>
       LET e == events[k]
           oldTs == Get(prev, e.id).updated
           T == IF oldTs = None THEN Epoch ELSE oldTs
           keep == {j \in 1..Len(e.full) : e.full[j].created > T}
       IN  /\ Range(e.src) = keep
           /\ Len(e.src) = Cardinality(keep)
           /\ \A a, b \in 1..Len(e.src) : a < b => e.src[a] < e.src[b]
           /\ Len(e.changes) = Len(e.src)
           /\ \A j \in 1..Len(e.src) :
                 e.changes[j] = FieldChange(e.full[e.src[j]])

\* an Updated event whose history has an event stamped exactly oldTs
C7_Witness ==
    \E k \in 1..Len(events) :
       /\ events[k].kind = "UPDATED"
       /\ \E j \in 1..Len(events[k].full) :
             events[k].full[j].created = Get(prev, events[k].id).updated

\* C8: a record of current whose id is not in previous gets exactly one
\* Created event, no other event, and is saved as current has it.
C8_NewRecord ==
    Completed =>
       \A k \in 1..Len(new_data) : ~Has(prev, new_data[k].id) =>
          /\ Cardinality(EventsOf(new_data[k].id, "CREATED")) = 1
          /\ EventsAbout(new_data[k].id) = EventsOf(new_data[k].id, "CREATED")
          /\ Has(file, new_data[k].id)
          /\ Get(file, new_data[k].id) = new_data[k]

\* a completed run that is not the baseline run met a new record
C8_Witness ==
    /\ Completed
    /\ ~baseline
    /\ \E k \in 1..Len(new_data) : ~Has(prev, new_data[k].id)

\* C9: an id of previous that current lacks gets exactly one Deleted event,
\* with the label the snapshot had for it (pass 1 touches only ids of
\* current, so that is previous' label), and is not saved; no Deleted event
\* is about an id of current.
C9_Deletion ==
    Completed =>
       /\ \A id \in Keys(prev) \ Keys(new_data) :
             /\ Cardinality(EventsOf(id, "DELETED")) = 1
             /\ \A k \in EventsOf(id, "DELETED") :
                   events[k].label = Get(prev, id).label
             /\ ~Has(file, id)
       /\ \A k \in 1..Len(events) :
             events[k].kind = "DELETED" => ~Has(new_data, events[k].id)

\* a completed run deleted one record and kept another
C9_Witness ==
    /\ Completed
    /\ Keys(prev) \ Keys(new_data) # {}
    /\ Keys(prev) \cap Keys(new_data) # {}

\* C10: a record with the same lastModified in previous and current gets no
\* event and is saved as it was; with current equal to previous there is no
\* event at all and the saved snapshot is previous.
C10_NoOp ==
    Completed =>
       /\ \A id \in Keys(prev) \cap Keys(new_data) :
             Get(prev, id).updated = Get(new_data, id).updated =>
                /\ EventsAbout(id) = {}
                /\ Has(file, id) /\ Get(file, id) = Get(prev, id)
       /\ Range(prev) = Range(new_data) => events = <<>> /\ file = prev

\* current equals previous in a run that is not the baseline run, while the
\* history feed already holds an event newer than the stored timestamp
C10_Witness ==
    /\ Completed
    /\ ~baseline
    /\ prev # <<>>
    /\ Range(prev) = Range(new_data)
    /\ \E id \in Keys(prev) : \E j \in 1..Len(hist[id]) :
          hist[id][j].created > last_time(Get(prev, id).updated)

\* the position of an id in a dict
Pos(d, id) == CHOOSE k \in 1..Len(d) : d[k].id = id

\* C11: within a run the Created and Updated events come in the order of
\* current's records, and no Created or Updated event comes after a Deleted
\* event.
C11_EventOrdering ==
    \A a, b \in 1..Len(events) : a < b =>
       /\ events[a].kind = "DELETED" => events[b].kind = "DELETED"
       /\ (events[a].kind # "DELETED" /\ events[b].kind # "DELETED") =>
             /\ Has(new_data, events[a].id) /\ Has(new_data, events[b].id)
             /\ Pos(new_data, events[a].id) < Pos(new_data, events[b].id)

\* a completed run reported an update or a creation, then a deletion
C11_Witness ==
    /\ Completed
    /\ \E a, b \in 1..Len(events) :
          a < b /\ events[a].kind # "DELETED" /\ events[b].kind = "DELETED"

\* C12: a notification that fails does not stop the run and changes neither
\* the events nor the snapshot: the step that meets the failure reports its
\* event, updates old_data as the code does after a delivered message, and
\* goes on to the next record (or to the save).
C12_NotifySwallowed ==
    [][ (slackError' /\ ~slackError) =>
          IF InLoop
          THEN /\ pc' = "loop"
               /\ i' = i + 1
               /\ Len(events') = Len(events) + 1
               /\ events'[Len(events')].id = emp.id
               /\ Has(old_data', emp.id)
               /\ Get(old_data', emp.id).updated = emp.updated
          ELSE /\ pc' = "save"
               /\ Len(events') > Len(events)
               /\ Keys(old_data') = Keys(new_data) ]_vars

\* a run completed although a notification failed
C12_Witness ==
    /\ Completed
    /\ slackError
    /\ events # <<>>
    /\ file = old_data

\* a record of both snapshots whose lastModified differs
Changed(id) ==
    /\ Has(prev, id) /\ Has(new_data, id)
    /\ Get(prev, id).updated # Get(new_data, id).updated

\* the stored timestamp of an id, the epoch sentinel when there is none
Watermark(id) ==
    IF Get(prev, id).updated = None THEN Epoch ELSE Get(prev, id).updated

\* C13: a changed record whose history request returned a non-empty list
\* with no event newer than the stored timestamp gets no event, and its
\* stored lastModified becomes current's.
C13_StaleHistory ==
    Completed =>
       \A id \in Ids :
          ( /\ Changed(id)
            /\ outcome[id] # "failed"
            /\ answer[id] # <<>>
            /\ \A j \in 1..Len(answer[id]) : answer[id][j].created <= Watermark(id) )
          => /\ EventsAbout(id) = {}
             /\ Get(file, id).updated = Get(new_data, id).updated

\* a completed run met a stale history
C13_Witness ==
    /\ Completed
    /\ \E id \in Ids :
          /\ Changed(id)
          /\ outcome[id] # "failed"
          /\ answer[id] # <<>>
          /\ \A j \in 1..Len(answer[id]) : answer[id][j].created <= Watermark(id)
          /\ \E j \in 1..Len(answer[id]) : answer[id][j].created = Watermark(id)

\* C14: a changed record whose history request succeeded with an empty list
\* gets no event and keeps the previous lastModified.
C14_EmptyHistory ==
    Completed =>
       \A id \in Ids :
          (Changed(id) /\ outcome[id] # "failed" /\ answer[id] = <<>>)
          => /\ EventsAbout(id) = {}
             /\ Get(file, id).updated = Get(prev, id).updated

\* a completed run met an empty history
C14_Witness ==
    /\ Completed
    /\ \E id \in Ids : Changed(id) /\ outcome[id] = "empty" /\ answer[id] = <<>>

\* C15: actor and occurredAt of an Updated event are those of the last
\* element of the whole list the feed returned.
C15_Attribution ==
    \A k \in 1..Len(events) : events[k].kind = "UPDATED" =>
       LET e == events[k]
           last == e.full[Len(e.full)]
       IN  /\ e.occurredAt = last.created
           /\ e.actor = IF last.actor = Missing THEN "Unknown" ELSE last.actor

\* an Updated event whose list ends with an event that is not reported
C15_Witness ==
    \E k \in 1..Len(events) :
       /\ events[k].kind = "UPDATED"
       /\ Len(events[k].full) \notin Range(events[k].src)
       /\ events[k].occurredAt # events[k].full[events[k].src[Len(events[k].src)]].created

\* C16: the history is requested only for ids of both snapshots whose
\* lastModified differs, and at most once for an id in a run.
C16_LookupsOnlyForChanged ==
    /\ \A k \in 1..Len(fetchLog) : Changed(fetchLog[k])
    /\ \A a, b \in 1..Len(fetchLog) : a < b => fetchLog[a] # fetchLog[b]

\* a completed run requested a history and met a record it did not look up
C16_Witness ==
    /\ Completed
    /\ fetchLog # <<>>
    /\ \E id \in Ids : outcome[id] \in {"created", "unchanged"}

\* C17 (as claimed): a field change has the attribute "--" (the em dash) for
\* a null or missing affectedAttribute, "None" for a null oldValue or
\* newValue, and the event's own values otherwise.
C17_NullDefaults ==
    \A k \in 1..Len(events) : events[k].kind = "UPDATED" =>
       \A j \in 1..Len(events[k].src) :
          LET h == events[k].full[events[k].src[j]]
              c == events[k].changes[j]
          IN  /\ c.attribute =
                    IF h.affectedAttribute \in {Null, Missing} THEN "--"
                    ELSE h.affectedAttribute
              /\ c.oldValue =
                    IF h.oldValue \in {Null, Missing} THEN "None" ELSE h.oldValue
              /\ c.newValue =
                    IF h.newValue \in {Null, Missing} THEN "None" ELSE h.newValue

\* C19: in a run no id has two events; a Created event is about an id of
\* current that previous lacks, an Updated event about an id of both, a
\* Deleted event about an id of previous that current lacks.
C19_OneEventPerRecord ==
    /\ \A a, b \in 1..Len(events) : a # b => events[a].id # events[b].id
    /\ \A k \in 1..Len(events) :
          LET id == events[k].id
          IN  /\ events[k].kind = "CREATED" => Has(new_data, id) /\ ~Has(prev, id)
              /\ events[k].kind = "UPDATED" => Has(new_data, id) /\ Has(prev, id)
              /\ events[k].kind = "DELETED" => ~Has(new_data, id) /\ Has(prev, id)

\* a completed run with two events of different kinds
C19_Witness ==
    /\ Completed
    /\ \E a, b \in 1..Len(events) : events[a].kind # events[b].kind

\* C20: in a run that found no file, the baseline fetched by load_employees
\* is in the file before the catalog is fetched again and compared, and no
\* Created event of the run is about a record of the baseline.
C20_InitialRun ==
    baseline =>
       /\ fileExists
       /\ pc \in {"fetch", "loop"} => file = prev
       /\ \A k \in 1..Len(events) :
             events[k].kind = "CREATED" => ~Has(prev, events[k].id)

\* a baseline run whose second catalog fetch got a non-200 page, completed
C20_Witness ==
    /\ baseline
    /\ Completed
    /\ prev # <<>>
    /\ partial

\* C18 (as claimed): once the remote system has stopped changing and the
\* requests succeed, from some run on no run emits an event or requests a
\* history.
C18_Quiescence == <>[](events = <<>> /\ fetchLog = <<>>)

\* C18 (amended): from some run on no run emits an event, and a history is
\* requested only for records whose history feed is empty.
C18_Amended ==
    <>[](/\ events = <<>>
         /\ \A k \in 1..Len(fetchLog) : hist[fetchLog[k]] = <<>>)

\* the remote system has stopped, earlier runs reported history events, and
\* a completed run emitted nothing and requested the history of a record
\* whose feed is empty
C18_Witness ==
    /\ Completed
    /\ clock = MaxClock
    /\ reported # {}
    /\ events = <<>>
    /\ fetchLog # <<>>
    /\ \A k \in 1..Len(fetchLog) : hist[fetchLog[k]] = <<>>

====
